---- MODULE Spec2Model ----
(***************************************************************************)
(* A model of bbob_pproc/pprldistr.py: the ECDF builder (plotECDF), the    *)
(* run-length and final-value aggregators (plotRLDistr, plotFVDistr) and   *)
(* the module globals evalfmax / fmax that main, comp and beautifyFVD keep *)
(* between calls.                                                          *)
(*                                                                         *)
(* Numbers.  Python floats are modelled as exact rationals <<num, den>>    *)
(* in lowest terms with den > 0.  NaN is <<0, 0>> and +inf is <<1, 0>>.    *)
(* Python's None is the empty tuple.                                       *)
(***************************************************************************)
EXTENDS Integers, Sequences, FiniteSets, TLC

VARIABLES
    evalfmax,            \* module global, line 91
    fmax,                \* module global, line 90
    runlen_xlimits_max,  \* module global, line 87
    inv,                 \* the invocation of main/comp in progress: dimensions left, dimensions seen
    saved,               \* the figures saved so far (saveFigure), oldest first
    ecdf,                \* a call of plotECDF: its arguments and its curve
    rld,                 \* a call of plotRLDistr
    fvd,                 \* a call of plotFVDistr
    axes                 \* the current axes: its curves and limits, before and after beautifyECDF

vars == <<evalfmax, fmax, runlen_xlimits_max, inv, saved, ecdf, rld, fvd, axes>>

-----------------------------------------------------------------------------
(* Bounds of the model *)

MaxLen == 3        \* longest sample sequence handed to plotECDF
MaxN == 4          \* largest total count n handed to plotECDF
MaxTrials == 2     \* most trials (columns) in one aggregator call, all records together
MaxRows == 2       \* most funvals rows of one record
MaxFigs == 3       \* most dimensions processed, all main/comp calls together
MaxDims == 2       \* most dimensions in one dsList
MaxCurves == 1
MaxPoints == 2

-----------------------------------------------------------------------------
(* Numbers *)

None == <<>>
NaN == <<0, 0>>
Inf == <<1, 0>>

Abs(a) == IF a < 0 THEN -a ELSE a

RECURSIVE GCD(_, _)
GCD(a, b) == IF b = 0 THEN a ELSE GCD(b, a % b)

\* the float a / b, b /= 0
Rat(a, b) ==
    LET g == GCD(Abs(a), Abs(b))
        s == IF b < 0 THEN -1 ELSE 1
    IN  <<(s * a) \div g, (s * b) \div g>>

Num(k) == <<k, 1>>

isnan(v) == v = NaN

\* a <= b on floats; any comparison with NaN is False
RLe(a, b) == ~isnan(a) /\ ~isnan(b) /\ a[1] * b[2] <= b[1] * a[2]
RLt(a, b) == ~isnan(a) /\ ~isnan(b) /\ a[1] * b[2] < b[1] * a[2]

\* a / b on floats, b finite and non-zero; NaN / b is NaN
RDiv(a, b) == IF isnan(a) THEN NaN ELSE Rat(a[1] * b[2], a[2] * b[1])
RMul(a, b) == IF a[2] * b[2] = 0 THEN Inf ELSE Rat(a[1] * b[1], a[2] * b[2])

RECURSIVE SeqsUpTo(_, _)
SeqsUpTo(S, k) ==
    IF k = 0 THEN {<<>>}
    ELSE LET T == SeqsUpTo(S, k - 1)
         IN  T \cup {Append(t, e) : t \in {u \in T : Len(u) = k - 1}, e \in S}

RECURSIVE Concat(_)
Concat(ss) == IF ss = <<>> THEN <<>> ELSE Head(ss) \o Concat(Tail(ss))

RECURSIVE SumSeq(_)
SumSeq(s) == IF s = <<>> THEN 0 ELSE Head(s) + SumSeq(Tail(s))

-----------------------------------------------------------------------------
(* plotECDF, lines 229-251 *)

\* a variant of Insert that ignores the order
InsertFront(s, v) == <<v>> \o s

\* insert v after the last element of the sorted sequence s that is <= v
RECURSIVE Insert(_, _)
Insert(s, v) ==
    IF s = <<>> THEN <<v>>
    ELSE IF RLt(v, Head(s)) THEN <<v>> \o s
    ELSE <<Head(s)>> \o Insert(Tail(s), v)

\* a variant of sorted that returns the list in the order it was given
sortedSkipped(x) == x

\* sorted(x): a new list, ascending, equal elements in their input order
RECURSIVE sorted(_)
sorted(x) ==
    IF x = <<>> THEN <<>>
    ELSE Insert(sorted(SubSeq(x, 1, Len(x) - 1)), x[Len(x)])

\* a variant of ecdfY with the samples counted from one
ecdfYFromOne(nx, n) == [i \in 1..(nx + 1) |-> IF i <= nx THEN Rat(i, n) ELSE Rat(nx, n)]

\* y of line 248: i / n for i = 0 .. nx-1, then float(nx) / n
ecdfY(nx, n) == [i \in 1..(nx + 1) |-> IF i <= nx THEN Rat(i - 1, n) ELSE Rat(nx, n)]

\* a variant of plotECDF that leaves the sample in its input order
plotECDFUnsorted(x, nArg) ==
    LET n == IF nArg = None THEN Len(x) ELSE nArg[1]
        nx == Len(x)
    IN  IF n = 0 \/ nx = 0
        THEN [xdata |-> <<>>, ydata |-> <<>>]
        ELSE [xdata |-> Append(x, x[nx]), ydata |-> ecdfY(nx, n)]

\* a variant of plotECDF that takes n = 0 for "not given" (if not n: n = len(x))
plotECDFZeroIsNone(x, nArg) ==
    LET n == IF nArg = None \/ nArg = <<0>> THEN Len(x) ELSE nArg[1]
        nx == Len(x)
    IN  IF n = 0 \/ nx = 0
        THEN [xdata |-> <<>>, ydata |-> <<>>]
        ELSE LET s == sorted(x)
             IN  [xdata |-> Append(s, s[nx]), ydata |-> ecdfY(nx, n)]

\* the x and y data of the step curve handed to plotUnifLogXMarkers
plotECDF(x, nArg) ==
    LET n == IF nArg = None THEN Len(x) ELSE nArg[1]
        nx == Len(x)
    IN  IF n = 0 \/ nx = 0
        THEN [xdata |-> <<>>, ydata |-> <<>>]
        ELSE LET s == sorted(x)
             IN  [xdata |-> Append(s, s[nx]), ydata |-> ecdfY(nx, n)]

SampleValues == {Num(1), Num(2), Num(4)}
Samples == SeqsUpTo(SampleValues, MaxLen)
\* n: not given, 0 .. MaxN, the 20 trials of the specification's scenario, or a
\* negative count
NArgs == {None} \cup {<<k>> : k \in (0..MaxN) \cup {20, -1}}

NoEcdf == [x |-> <<>>, n |-> None, done |-> FALSE, xdata |-> <<>>, ydata |-> <<>>]
NoRld == [dsList |-> <<>>, target |-> <<>>, label |-> "", max_fun_evals |-> Inf,
          done |-> FALSE, x |-> <<>>, nn |-> 0, outLabel |-> "", xdata |-> <<>>, ydata |-> <<>>]
NoFvd == [dsList |-> <<>>, target |-> [isDict |-> FALSE, of |-> <<>>], maxEvalsF |-> Inf,
          done |-> FALSE, j |-> <<>>, tmp |-> <<>>, x |-> <<>>, nn |-> 0,
          xdata |-> <<>>, ydata |-> <<>>]
NoInv == [fn |-> "none", isStoringXMax |-> FALSE, first |-> FALSE, todo |-> 0, seen |-> {}]
NoAxes == [plotted |-> <<>>, children |-> <<>>, xlim |-> <<>>, ylim |-> <<>>, done |-> FALSE]

\* the caller's arguments of one plotECDF call, before the call
InitECDF ==
    /\ evalfmax = None /\ fmax = None /\ runlen_xlimits_max = None
    /\ inv = NoInv /\ saved = <<>> /\ rld = NoRld /\ fvd = NoFvd
    /\ axes = NoAxes
    /\ \E x \in Samples, n \in NArgs :
          ecdf = [x |-> x, n |-> n, done |-> FALSE, xdata |-> <<>>, ydata |-> <<>>]

CallPlotECDF ==
    /\ ~ecdf.done
    /\ LET r == plotECDF(ecdf.x, ecdf.n)
       IN  ecdf' = [ecdf EXCEPT !.done = TRUE, !.xdata = r.xdata, !.ydata = r.ydata]
    /\ UNCHANGED <<evalfmax, fmax, runlen_xlimits_max, inv, saved, rld, fvd, axes>>

NextECDF == CallPlotECDF

SpecECDF == InitECDF /\ [][NextECDF]_vars

-----------------------------------------------------------------------------
(* plotRLDistr, lines 332-369 *)

FuncIds == {1, 2}
Dims == {1, 2}
TargetValues == {Num(10), Rat(1, 10)}
\* an entry of a run-length row: an evaluation count, or NaN for a trial that
\* never reached the target
RawEvals == {NaN, Num(2), Num(4)}
Labels == {"1e+01", "1e-08"}
Caps == {Num(1), Inf}

\* ds.detEvals((t, ))[0]: the record's run-length row for target t, one entry per trial
detEvals(ds, t) == ds.evals[t]

\* ds.nbRuns(): the number of trials of the record
nbRuns(ds) == ds.nbRuns

\* a variant of rldTmp that leaves the evaluation counts unnormalised
rldTmpRaw(ds, target) ==
    SelectSeq(detEvals(ds, target[<<ds.funcId, ds.dim>>]), LAMBDA v : isnan(v) = FALSE)

\* tmp of lines 359-360: the row over dim, the NaN entries dropped
rldTmp(ds, target) ==
    LET row == detEvals(ds, target[<<ds.funcId, ds.dim>>])
        tmp == [i \in 1..Len(row) |-> RDiv(row[i], Num(ds.dim))]
    IN  SelectSeq(tmp, LAMBDA v : isnan(v) = FALSE)

\* a variant of rldSolved that ignores max_fun_evals, as plotRLDistr_old does
rldSolvedNoCap(tmp, max_fun_evals) == Len(tmp) > 0

\* the condition of line 361: len(tmp) > 0 and sum(tmp <= max_fun_evals)
rldSolved(tmp, max_fun_evals) ==
    /\ Len(tmp) > 0
    /\ Cardinality({i \in 1..Len(tmp) : RLe(tmp[i], max_fun_evals)}) # 0

\* a variant of rldLoop that keeps only the run lengths within the cap in the sample
RECURSIVE rldLoopCapped(_, _, _, _, _)
rldLoopCapped(dsList, k, target, max_fun_evals, acc) ==
    IF k > Len(dsList) THEN acc
    ELSE LET ds == dsList[k]
             tmp == rldTmp(ds, target)
         IN  rldLoopCapped(dsList, k + 1, target, max_fun_evals,
                     [x |-> acc.x \o SelectSeq(tmp, LAMBDA v : RLe(v, max_fun_evals)),
                      nn |-> acc.nn + nbRuns(ds),
                      fsolved |-> IF rldSolved(tmp, max_fun_evals)
                                  THEN acc.fsolved \cup {ds.funcId} ELSE acc.fsolved,
                      funcs |-> acc.funcs \cup {ds.funcId}])

\* the loop of lines 357-364 over the records from position k on
RECURSIVE rldLoop(_, _, _, _, _)
rldLoop(dsList, k, target, max_fun_evals, acc) ==
    IF k > Len(dsList) THEN acc
    ELSE LET ds == dsList[k]
             tmp == rldTmp(ds, target)
         IN  rldLoop(dsList, k + 1, target, max_fun_evals,
                     [x |-> acc.x \o tmp,
                      nn |-> acc.nn + nbRuns(ds),
                      fsolved |-> IF rldSolved(tmp, max_fun_evals)
                                  THEN acc.fsolved \cup {ds.funcId} ELSE acc.fsolved,
                      funcs |-> acc.funcs \cup {ds.funcId}])

\* the sample, the count, the label and the curve of one call
plotRLDistr(dsList, target, label, max_fun_evals) ==
    LET acc == rldLoop(dsList, 1, target, max_fun_evals,
                       [x |-> <<>>, nn |-> 0, fsolved |-> {}, funcs |-> {}])
        res == plotECDF(acc.x, <<acc.nn>>)
    IN  [x |-> acc.x, nn |-> acc.nn,
         label |-> label \o ": " \o ToString(Cardinality(acc.fsolved))
                         \o "/" \o ToString(Cardinality(acc.funcs)),
         xdata |-> res.xdata, ydata |-> res.ydata]

\* the records of dimension d with k trials
RldRecords(d, k) ==
    {[funcId |-> f, dim |-> d, nbRuns |-> k, evals |-> e] :
        f \in FuncIds,
        e \in [TargetValues -> {r \in SeqsUpTo(RawEvals, k) : Len(r) = k}]}

\* the lists of records of dimension d with at most MaxTrials trials altogether
RECURSIVE RldLists(_, _)
RldLists(d, budget) ==
    {<<>>} \cup UNION {{<<ds>> \o rest : ds \in RldRecords(d, k), rest \in RldLists(d, budget - k)}
                          : k \in 1..budget}

InitRLD ==
    /\ evalfmax = None /\ fmax = None /\ runlen_xlimits_max = None
    /\ inv = NoInv /\ saved = <<>> /\ ecdf = NoEcdf /\ fvd = NoFvd
    /\ axes = NoAxes
    /\ \E d \in Dims :
       \E dsList \in RldLists(d, MaxTrials), target \in [FuncIds \X {d} -> TargetValues],
          label \in Labels, cap \in Caps :
          rld = [NoRld EXCEPT !.dsList = dsList, !.target = target, !.label = label,
                              !.max_fun_evals = cap]

CallPlotRLDistr ==
    /\ ~rld.done
    /\ LET r == plotRLDistr(rld.dsList, rld.target, rld.label, rld.max_fun_evals)
       IN  rld' = [rld EXCEPT !.done = TRUE, !.x = r.x, !.nn = r.nn, !.outLabel = r.label,
                              !.xdata = r.xdata, !.ydata = r.ydata]
    /\ UNCHANGED <<evalfmax, fmax, runlen_xlimits_max, inv, saved, ecdf, fvd, axes>>

NextRLD == CallPlotRLDistr

SpecRLD == InitRLD /\ [][NextRLD]_vars

-----------------------------------------------------------------------------
(* plotFVDistr, lines 371-399 *)

\* evaluation counts of funvals rows, gaps of trials, target precisions, budgets
EvalCounts == {1, 4}
GapValues == {Num(-2), Num(0), Num(4)}
FvdTargetValues == {Num(1), Num(2)}
Budgets == {Num(1), Num(2), Inf}

SetMin(S) == CHOOSE m \in S : \A e \in S : m <= e

\* the loop of lines 385-387: the index of the row j the loop stops at, the first
\* one whose evaluation count j[0] is >= maxEvalsF * dim, else the last row
fvdRow(ds, maxEvalsF) ==
    LET hit == {k \in 1..Len(ds.funvals) :
                   RLe(RMul(maxEvalsF, Num(ds.dim)), Num(ds.funvals[k].evals))}
    IN  IF hit = {} THEN Len(ds.funvals) ELSE SetMin(hit)

\* lines 388-391: target[i.funcId], or target itself when it is a float
fvdTarget(ds, target) == target.of[ds.funcId]

\* target as element of the comparison of line 395: a float target is itself; a
\* dict target orders after every number, so it compares as +inf
fvdTargetAsNumber(target) ==
    IF target.isDict THEN Inf ELSE target.of[CHOOSE f \in DOMAIN target.of : TRUE]

\* the value of line 395, min(np.append(tmp[tmp>0], [target]) > 0): the minimum of
\* the comparisons, True (1.0) when every one of them holds and else False (0.0)
fvdFloor(tmp, target) ==
    LET positive == SelectSeq(tmp, LAMBDA v : RLt(Num(0), v))
        appended == positive \o <<fvdTargetAsNumber(target)>>
    IN  IF \A i \in 1..Len(appended) : RLt(Num(0), appended[i]) THEN Num(1) ELSE Num(0)

\* lines 388-395: the selected row's gaps over the target, the gaps <= 0 replaced
fvdTmp(ds, target, maxEvalsF) ==
    LET gaps == ds.funvals[fvdRow(ds, maxEvalsF)].gaps
        tmp == [i \in 1..Len(gaps) |-> RDiv(gaps[i], fvdTarget(ds, target))]
    IN  [i \in 1..Len(tmp) |-> IF RLe(tmp[i], Num(0)) THEN fvdFloor(tmp, target) ELSE tmp[i]]

\* the rows selected, the samples and the curve of one call
plotFVDistr(dsList, target, maxEvalsF) ==
    LET j == [k \in 1..Len(dsList) |-> fvdRow(dsList[k], maxEvalsF)]
        tmp == [k \in 1..Len(dsList) |-> fvdTmp(dsList[k], target, maxEvalsF)]
        x == Concat(tmp)
        nn == SumSeq([k \in 1..Len(dsList) |-> nbRuns(dsList[k])])
        res == plotECDF(x, <<nn>>)
    IN  [j |-> j, tmp |-> tmp, x |-> x, nn |-> nn, xdata |-> res.xdata, ydata |-> res.ydata]

\* the funvals tables of k trials: 1 .. MaxRows rows in ascending evaluation count
RECURSIVE FunvalsFrom(_, _, _)
FunvalsFrom(k, least, rows) ==
    IF rows = 0 THEN {<<>>}
    ELSE {<<>>} \cup
         UNION {{<<[evals |-> e, gaps |-> g]>> \o rest :
                    g \in {r \in SeqsUpTo(GapValues, k) : Len(r) = k},
                    rest \in FunvalsFrom(k, e + 1, rows - 1)}
                : e \in {c \in EvalCounts : c >= least}}

FvdRecords(d, k) ==
    {[funcId |-> f, dim |-> d, nbRuns |-> k, funvals |-> fv] :
        f \in FuncIds, fv \in FunvalsFrom(k, 1, MaxRows) \ {<<>>}}

\* the lists of records of dimension d with at most MaxTrials trials altogether
RECURSIVE FvdLists(_, _)
FvdLists(d, budget) ==
    {<<>>} \cup UNION {{<<ds>> \o rest : ds \in FvdRecords(d, k), rest \in FvdLists(d, budget - k)}
                          : k \in 1..budget}

\* the record of the specification's clamp scenario: one row of gaps [-2, 0, 3, 5]
FvdScenario ==
    <<[funcId |-> 1, dim |-> 1, nbRuns |-> 4,
       funvals |-> <<[evals |-> 1, gaps |-> <<Num(-2), Num(0), Num(3), Num(5)>>]>>]>>

\* a float target, or a dict of targets by function ID
FvdTargets ==
    {[isDict |-> FALSE, of |-> [f \in FuncIds |-> t]] : t \in FvdTargetValues}
        \cup {[isDict |-> TRUE, of |-> m] : m \in [FuncIds -> FvdTargetValues]}

InitFVD ==
    /\ evalfmax = None /\ fmax = None /\ runlen_xlimits_max = None
    /\ inv = NoInv /\ saved = <<>> /\ ecdf = NoEcdf /\ rld = NoRld
    /\ axes = NoAxes
    /\ \E d \in Dims :
       \E dsList \in FvdLists(d, MaxTrials) \cup {FvdScenario},
          target \in FvdTargets, maxEvalsF \in Budgets :
          fvd = [NoFvd EXCEPT !.dsList = dsList, !.target = target, !.maxEvalsF = maxEvalsF]

CallPlotFVDistr ==
    /\ ~fvd.done
    /\ LET r == plotFVDistr(fvd.dsList, fvd.target, fvd.maxEvalsF)
       IN  fvd' = [fvd EXCEPT !.done = TRUE, !.j = r.j, !.tmp = r.tmp, !.x = r.x,
                              !.nn = r.nn, !.xdata = r.xdata, !.ydata = r.ydata]
    /\ UNCHANGED <<evalfmax, fmax, runlen_xlimits_max, inv, saved, ecdf, rld, axes>>

NextFVD == CallPlotFVDistr

SpecFVD == InitFVD /\ [][NextFVD]_vars

-----------------------------------------------------------------------------
(* main, comp and beautifyFVD: the ceilings kept in evalfmax and fmax *)

\* mMaxEvals() of the records of one dimension, and right axis limits the
\* renderer may report for a final-value figure
MaxEvalsSets == {{Num(2)}, {Num(2), Num(4)}}
XLims == {Num(10), Num(100)}
RunlenLimits == {None, Num(3)}

RatMax(S) == CHOOSE m \in S : \A e \in S : RLe(e, m)

\* Python's "not v" for None and floats
Not(v) == v = None \/ v[1] = 0

\* line 608: max(i.mMaxEvals() / d for i in dictdim); mMaxEvals() is a float, so
\* the division is the true division
maxEvalsFactorMain(g) == RatMax({RDiv(m, Num(g.d)) : m \in g.ds0})

\* lines 428-429: the larger of the two algorithms' maxima
maxEvalsFactorComp(g) ==
    RatMax({RatMax({RDiv(m, Num(g.d)) : m \in g.ds0}), RatMax({RDiv(m, Num(g.d)) : m \in g.ds1})})

\* a variant of storeEvalfmax whose isStoringXMax = False branch leaves the
\* global alone
storeEvalfmaxNoReset(isStoringXMax, stored, maxEvalsFactor, xlimits_max) ==
    LET e2 == IF Not(stored) THEN maxEvalsFactor ELSE stored
    IN  IF xlimits_max # None THEN xlimits_max ELSE e2

\* a variant of storeEvalfmax that takes every dimension's own maximum
storeEvalfmaxAlways(isStoringXMax, stored, maxEvalsFactor, xlimits_max) ==
    IF xlimits_max # None THEN xlimits_max ELSE maxEvalsFactor

\* lines 609-616 (main) and 430-437 (comp): the new value of the global evalfmax.
\* The global statement makes evalfmax the module's variable in the whole
\* function, whichever branch runs.
storeEvalfmax(isStoringXMax, stored, maxEvalsFactor, xlimits_max) ==
    LET e1 == IF isStoringXMax THEN stored ELSE None
        e2 == IF Not(e1) THEN maxEvalsFactor ELSE e1
    IN  IF xlimits_max # None THEN xlimits_max ELSE e2

\* lines 211-218 of beautifyFVD: the new value of the global fmax, which is the
\* right limit the figure gets; xlim is the right limit plt.xlim() reports
beautifyFVD(isStoringXMax, stored, xlim) ==
    LET f1 == IF isStoringXMax THEN stored ELSE None
    IN  IF Not(f1) THEN xlim ELSE f1

\* dsList.dictByDim(): the records of one dimension.  The loop takes the
\* dimensions in the dict's iteration order, which is any order.
MainGroups == {[d |-> d, ds0 |-> m, ds1 |-> {}] : d \in Dims, m \in MaxEvalsSets}
CompGroups == {[d |-> d, ds0 |-> m0, ds1 |-> m1] : d \in Dims, m0 \in MaxEvalsSets, m1 \in MaxEvalsSets}
\* the number of dimensions a dsList may hold
DimCounts == 0..MaxDims

\* the module as imported, lines 87-91
InitMain ==
    /\ evalfmax = None /\ fmax = None
    /\ runlen_xlimits_max \in RunlenLimits
    /\ inv = NoInv /\ saved = <<>>
    /\ ecdf = NoEcdf /\ rld = NoRld /\ fvd = NoFvd
    /\ axes = NoAxes

\* a call of main(dsList, isStoringXMax), up to its loop
MainBegin ==
    /\ inv.fn = "none"
    /\ \E isStoringXMax \in BOOLEAN, n \in DimCounts :
          /\ n <= Cardinality(Dims)
          /\ Len(saved) + n <= MaxFigs
          /\ inv' = [fn |-> "main", isStoringXMax |-> isStoringXMax, first |-> TRUE,
                     todo |-> n, seen |-> {}]
    /\ UNCHANGED <<evalfmax, fmax, runlen_xlimits_max, saved, ecdf, rld, fvd, axes>>

\* a call of comp(dsList0, dsList1, targets, isStoringXMax), up to its loop
CompBegin ==
    /\ inv.fn = "none"
    /\ \E isStoringXMax \in BOOLEAN, n \in DimCounts :
          /\ n <= Cardinality(Dims)
          /\ Len(saved) + n <= MaxFigs
          /\ inv' = [fn |-> "comp", isStoringXMax |-> isStoringXMax, first |-> TRUE,
                     todo |-> n, seen |-> {}]
    /\ UNCHANGED <<evalfmax, fmax, runlen_xlimits_max, saved, ecdf, rld, fvd, axes>>

\* one pass of main's loop, lines 607-661: the run-length figure with the ceiling
\* evalfmax given to beautifyRLD, then the final-value figure that beautifyFVD
\* limits to fmax
MainDim ==
    /\ inv.fn = "main" /\ inv.todo > 0
    /\ \E xlim \in XLims, g \in {h \in MainGroups : h.d \notin inv.seen} :
          LET maxEvalsFactor == maxEvalsFactorMain(g)
              e == storeEvalfmax(inv.isStoringXMax, evalfmax, maxEvalsFactor, runlen_xlimits_max)
              f == beautifyFVD(inv.isStoringXMax, fmax, xlim)
          IN  /\ evalfmax' = e
              /\ fmax' = f
              /\ saved' = Append(saved,
                     [fn |-> "main", isStoringXMax |-> inv.isStoringXMax, first |-> inv.first,
                      d |-> g.d, maxEvalsFactor |-> maxEvalsFactor, evalfmax |-> e,
                      xlim |-> xlim, fmax |-> f])
              /\ inv' = [inv EXCEPT !.todo = @ - 1, !.first = FALSE, !.seen = @ \cup {g.d}]
    /\ UNCHANGED <<runlen_xlimits_max, ecdf, rld, fvd, axes>>

\* one pass of comp's loop, lines 427-479: the run-length figure only
CompDim ==
    /\ inv.fn = "comp" /\ inv.todo > 0
    /\ \E g \in {h \in CompGroups : h.d \notin inv.seen} :
          LET maxEvalsFactor == maxEvalsFactorComp(g)
              e == storeEvalfmax(inv.isStoringXMax, evalfmax, maxEvalsFactor, runlen_xlimits_max)
          IN  /\ evalfmax' = e
              /\ saved' = Append(saved,
                     [fn |-> "comp", isStoringXMax |-> inv.isStoringXMax, first |-> inv.first,
                      d |-> g.d, maxEvalsFactor |-> maxEvalsFactor, evalfmax |-> e,
                      xlim |-> None, fmax |-> None])
              /\ inv' = [inv EXCEPT !.todo = @ - 1, !.first = FALSE, !.seen = @ \cup {g.d}]
    /\ UNCHANGED <<fmax, runlen_xlimits_max, ecdf, rld, fvd, axes>>

\* main or comp returns when its loop is over
Return ==
    /\ inv.fn # "none" /\ inv.todo = 0
    /\ inv' = NoInv
    /\ UNCHANGED <<evalfmax, fmax, runlen_xlimits_max, saved, ecdf, rld, fvd, axes>>

NextMain == MainBegin \/ CompBegin \/ MainDim \/ CompDim \/ Return

SpecMain == InitMain /\ [][NextMain]_vars

-----------------------------------------------------------------------------
(* beautifyECDF, lines 137-177 *)

\* markers per decade of the x-axis, line 85
nbperdecade == 1

\* 10. ** k
RECURSIVE pow10(_)
pow10(k) ==
    IF k = 0 THEN Num(1)
    ELSE IF k > 0 THEN RMul(Num(10), pow10(k - 1))
    ELSE RDiv(pow10(k + 1), Num(10))

\* np.floor(np.log10(v)) of a positive v: the largest k with 10 ** k <= v
RECURSIVE floorLog10From(_, _)
floorLog10From(v, k) ==
    IF RLt(v, pow10(k)) THEN floorLog10From(v, k - 1)
    ELSE IF RLe(pow10(k + 1), v) THEN floorLog10From(v, k + 1)
    ELSE k
floorLog10(v) == floorLog10From(v, 0)

\* a variant of ceilLog10 that rounds down
ceilLog10Floor(v) == floorLog10(v)

\* np.ceil(np.log10(v)) of a positive v: the smallest k with 10 ** k >= v
ceilLog10(v) ==
    IF pow10(floorLog10(v)) = v THEN floorLog10(v) ELSE floorLog10(v) + 1

\* 10. ** (np.arange(minidx, maxidx + 1) / nbperdecade), line 172
RECURSIVE logGrid(_, _)
logGrid(minidx, maxidx) ==
    IF minidx > maxidx THEN <<>>
    ELSE <<pow10(minidx \div nbperdecade)>> \o logGrid(minidx + 1, maxidx)

\* max(xdata) of a non-empty sequence
SeqMax(xdata) == RatMax({xdata[i] : i \in 1..Len(xdata)})

\* a variant of extendLine that also extends a curve ending at xmax
extendLineAtOrAbove(c, xmax) ==
    IF Len(c.xdata) > 0 /\ RLe(SeqMax(c.xdata), xmax)
    THEN [c EXCEPT !.xdata = Append(c.xdata, xmax),
                   !.ydata = Append(c.ydata, c.ydata[Len(c.ydata)])]
    ELSE c

\* lines 148-157: a curve drawn with a line gets the point (xmax, last y)
extendLine(c, xmax) ==
    IF Len(c.xdata) > 0 /\ RLt(SeqMax(c.xdata), xmax)
    THEN [c EXCEPT !.xdata = Append(c.xdata, xmax),
                   !.ydata = Append(c.ydata, c.ydata[Len(c.ydata)])]
    ELSE c

\* lines 160-175: a curve drawn with markers only gets the decade positions from
\* its last x up to xmax, each with the last y
extendMarkers(c, xmax) ==
    IF Len(c.xdata) > 0 /\ RLt(SeqMax(c.xdata), xmax)
    THEN LET minidx == ceilLog10(c.xdata[Len(c.xdata)]) * nbperdecade
             maxidx == floorLog10(xmax) * nbperdecade
             x == logGrid(minidx, maxidx)
         IN  [c EXCEPT !.xdata = c.xdata \o x,
                       !.ydata = c.ydata \o [k \in 1..Len(x) |-> c.ydata[Len(c.ydata)]]]
    ELSE c

\* the body of the loop over the children, lines 146-177
beautifyCurve(c, xmax) ==
    IF c.drawstyle = "steps" /\ ~(c.linestyle \in {"", "None"})
    THEN extendLine(c, xmax)
    ELSE IF c.drawstyle = "steps" /\ c.marker # "" /\ c.linestyle \in {"", "None"}
    THEN extendMarkers(c, xmax)
    ELSE c

\* the limits and the curves of the axes after beautifyECDF
beautifyECDF(a) ==
    [a EXCEPT !.ylim = <<Num(0), Num(1)>>,
              !.xlim = <<RMul(a.xlim[1], Rat(9, 10)), a.xlim[2]>>,
              !.children = [i \in 1..Len(a.children) |-> beautifyCurve(a.children[i], a.xlim[2])],
              !.done = TRUE]

DrawStyles == {"steps", "default"}
LineStyles == {"-", "None", ""}
Markers == {"", "o"}
CurveX == {Num(2), Num(10), Num(50)}
CurveY == {Rat(1, 2), Num(1)}
XMaxValues == {Num(5), Num(50), Num(100)}

\* the non-decreasing sequences over S of length up to k
NonDecreasingSeqs(S, k) ==
    {s \in SeqsUpTo(S, k) : \A i \in 1..Len(s) - 1 : RLe(s[i], s[i + 1])}

\* the step curves an ECDF figure can hold: x and y of equal length, non-decreasing
Curves ==
    {[drawstyle |-> d, linestyle |-> l, marker |-> m, xdata |-> x, ydata |-> y] :
        d \in DrawStyles, l \in LineStyles, m \in Markers,
        x \in NonDecreasingSeqs(CurveX, MaxPoints),
        y \in NonDecreasingSeqs(CurveY, MaxPoints)}

InitAxes ==
    /\ evalfmax = None /\ fmax = None /\ runlen_xlimits_max = None
    /\ inv = NoInv /\ saved = <<>>
    /\ ecdf = NoEcdf /\ rld = NoRld /\ fvd = NoFvd
    /\ \E cs \in SeqsUpTo({c \in Curves : Len(c.xdata) = Len(c.ydata)}, MaxCurves),
          xmax \in XMaxValues :
          axes = [plotted |-> cs, children |-> cs, xlim |-> <<Num(1), xmax>>,
                  ylim |-> <<>>, done |-> FALSE]

CallBeautifyECDF ==
    /\ ~axes.done
    /\ axes' = beautifyECDF(axes)
    /\ UNCHANGED <<evalfmax, fmax, runlen_xlimits_max, inv, saved, ecdf, rld, fvd>>

NextAxes == CallBeautifyECDF

SpecAxes == InitAxes /\ [][NextAxes]_vars

-----------------------------------------------------------------------------
(* Claims about plotECDF *)

EcdfNx == Len(ecdf.x)
\* the total count the call works with: n, or len(x) when n is not given
EcdfN == IF ecdf.n = None THEN Len(ecdf.x) ELSE ecdf.n[1]

Occurrences(s, v) == Cardinality({i \in 1..Len(s) : s[i] = v})
NonDecreasing(s) == \A i \in 1..(Len(s) - 1) : RLe(s[i], s[i + 1])
IsPermutation(s, t) ==
    /\ Len(s) = Len(t)
    /\ \A i \in 1..Len(s) : Occurrences(s, s[i]) = Occurrences(t, s[i])

\* C1: for a non-empty sample x of length nx and a total count n > 0, plotECDF
\* produces exactly nx+1 points; the x-coordinates are x sorted ascending followed
\* by a duplicate of the maximum; y of point i (0-based, i < nx) is i/n and y of
\* the final point is nx/n, which is exactly 1 when n = nx.
C1_EcdfPoints ==
    (ecdf.done /\ EcdfNx > 0 /\ EcdfN > 0) =>
        LET nx == EcdfNx
            n == EcdfN
            xs == ecdf.xdata
            ys == ecdf.ydata
        IN  /\ Len(xs) = nx + 1
            /\ Len(ys) = nx + 1
            /\ IsPermutation(SubSeq(xs, 1, nx), ecdf.x)
            /\ NonDecreasing(SubSeq(xs, 1, nx))
            /\ \A i \in 1..nx : RLe(ecdf.x[i], xs[nx + 1])
            /\ \E i \in 1..nx : ecdf.x[i] = xs[nx + 1]
            /\ \A i \in 1..nx : ys[i][1] * n = (i - 1) * ys[i][2]
            /\ ys[nx + 1][1] * n = nx * ys[nx + 1][2]
            /\ (n = nx => ys[nx + 1] = Num(1))

\* C1 witness: an unsorted sample of two or more values with n > nx has been plotted
C1_Witness ==
    /\ ecdf.done /\ EcdfNx >= 2 /\ EcdfN > EcdfNx
    /\ RLt(ecdf.x[2], ecdf.x[1])
    /\ Len(ecdf.xdata) = EcdfNx + 1

\* C5 as stated: the point of the k-th smallest sample (k = 1..nx) carries y = k/n;
\* for the sample [2.0, 4.0] with n = 20 the points are (2, 1/20), (4, 2/20), (4, 2/20).
C5_KthPointCarriesKOverN ==
    (ecdf.done /\ EcdfNx > 0 /\ EcdfN > 0) =>
        /\ \A k \in 1..EcdfNx : ecdf.ydata[k][1] * EcdfN = k * ecdf.ydata[k][2]
        /\ (ecdf.x = <<Num(2), Num(4)>> /\ ecdf.n = <<20>>) =>
              /\ ecdf.xdata = <<Num(2), Num(4), Num(4)>>
              /\ ecdf.ydata = <<Rat(1, 20), Rat(2, 20), Rat(2, 20)>>

\* C5 amended: the point of the k-th smallest sample (k = 1..nx) carries
\* y = (k-1)/n, the number of samples before it in sorted order over n; only the
\* appended duplicate of the maximum carries nx/n.  For the sample [2.0, 4.0] with
\* n = 20 the points are (2, 0/20), (4, 1/20), (4, 2/20).
C5_KthPointCarriesKMinusOneOverN ==
    (ecdf.done /\ EcdfNx > 0 /\ EcdfN > 0) =>
        /\ \A k \in 1..EcdfNx :
              /\ ecdf.ydata[k][1] * EcdfN = (k - 1) * ecdf.ydata[k][2]
              /\ RLt(ecdf.ydata[k], ecdf.ydata[EcdfNx + 1])
        /\ ecdf.ydata[EcdfNx + 1][1] * EcdfN = EcdfNx * ecdf.ydata[EcdfNx + 1][2]
        /\ (ecdf.x = <<Num(2), Num(4)>> /\ ecdf.n = <<20>>) =>
              /\ ecdf.xdata = <<Num(2), Num(4), Num(4)>>
              /\ ecdf.ydata = <<Rat(0, 20), Rat(1, 20), Rat(2, 20)>>

\* C5 witness: the sample [2.0, 4.0] with n = 20 has been plotted
C5_Witness ==
    /\ ecdf.done /\ ecdf.x = <<Num(2), Num(4)>> /\ ecdf.n = <<20>>
    /\ Len(ecdf.ydata) = 3

EcdfMonotoneBounded ==
    /\ NonDecreasing(ecdf.ydata)
    /\ \A i \in 1..Len(ecdf.ydata) : RLe(Num(0), ecdf.ydata[i]) /\ RLe(ecdf.ydata[i], Num(1))
    /\ NonDecreasing(ecdf.xdata)

\* C6 as stated: for every sample sequence and every non-negative total count n,
\* the produced y is non-decreasing and lies in [0, 1], and x is non-decreasing.
C6_MonotoneForEveryN ==
    (ecdf.done /\ EcdfN >= 0) => EcdfMonotoneBounded

\* C6 amended: for every sample sequence and every total count n that is not
\* given, is 0, or is at least the number of samples, the produced y is
\* non-decreasing and lies in [0, 1], and x is non-decreasing.
C6_MonotoneForNAtLeastNx ==
    (ecdf.done /\ (EcdfN = 0 \/ EcdfN >= EcdfNx)) => EcdfMonotoneBounded

\* C6 witness: an unsorted sample with an explicit n > nx has been plotted
C6_Witness ==
    /\ ecdf.done /\ EcdfNx = MaxLen /\ ecdf.n # None /\ EcdfN > EcdfNx
    /\ RLt(ecdf.x[3], ecdf.x[1])
    /\ Len(ecdf.ydata) = EcdfNx + 1

-----------------------------------------------------------------------------
(* Claims about plotRLDistr *)

IsFinite(v) == v[2] # 0

\* the (record, trial) positions of the call's input
RldCells == {<<k, i>> : k \in 1..Len(rld.dsList), i \in 1..MaxTrials + 1}
\* entry i of record k's run-length row for the record's own target
RldEntryExists(k, i) ==
    i <= Len(rld.dsList[k].evals[rld.target[<<rld.dsList[k].funcId, rld.dsList[k].dim>>]])
RldEntry(k, i) ==
    rld.dsList[k].evals[rld.target[<<rld.dsList[k].funcId, rld.dsList[k].dim>>]][i]
\* the finite entries of the input whose value over dim is v
RldFiniteCellsWorth(v) ==
    {c \in RldCells :
        /\ RldEntryExists(c[1], c[2])
        /\ IsFinite(RldEntry(c[1], c[2]))
        /\ RldEntry(c[1], c[2])[1] * v[2] = v[1] * RldEntry(c[1], c[2])[2] * rld.dsList[c[1]].dim}
RldFiniteCells ==
    {c \in RldCells : RldEntryExists(c[1], c[2]) /\ IsFinite(RldEntry(c[1], c[2]))}

\* C2: the sample plotRLDistr hands to the ECDF builder consists of exactly the
\* finite entries of each record's run-length row for its target, each divided by
\* the record's dim (no non-finite entry is in it), and the count n handed over is
\* the sum of nbRuns() over all records, censored trials included.
C2_SampleAndCount ==
    rld.done =>
        /\ Len(rld.x) = Cardinality(RldFiniteCells)
        /\ \A j \in 1..Len(rld.x) :
              /\ IsFinite(rld.x[j])
              /\ Occurrences(rld.x, rld.x[j]) = Cardinality(RldFiniteCellsWorth(rld.x[j]))
        /\ rld.nn = SumSeq([k \in 1..Len(rld.dsList) |-> rld.dsList[k].nbRuns])
        /\ (rld.x # <<>> /\ rld.nn > 0) =>
              /\ IsPermutation(SubSeq(rld.xdata, 1, Len(rld.x)), rld.x)
              /\ rld.ydata[Len(rld.ydata)][1] * rld.nn = Len(rld.x) * rld.ydata[Len(rld.ydata)][2]

\* C2 witness: two records of dimension 2, one with a censored trial and one with
\* a successful trial, have been aggregated
C2_Witness ==
    /\ rld.done /\ Len(rld.dsList) = 2 /\ rld.dsList[1].dim = 2
    /\ \E c \in RldCells : RldEntryExists(c[1], c[2]) /\ isnan(RldEntry(c[1], c[2]))
    /\ Len(rld.x) = 1 /\ rld.nn = 2

\* the function IDs of the records, and those with a finite normalised run
\* length not larger than the cap
RldFuncs == {rld.dsList[k].funcId : k \in 1..Len(rld.dsList)}
RldFuncsUnderCap ==
    {rld.dsList[c[1]].funcId : c \in
        {c \in RldFiniteCells :
            RldEntry(c[1], c[2])[1] * rld.max_fun_evals[2]
                <= rld.max_fun_evals[1] * RldEntry(c[1], c[2])[2] * rld.dsList[c[1]].dim}}

\* C7: the legend label of the produced curve is the input label followed by
\* ': s/t', s the number of distinct function IDs with at least one finite
\* normalised run length not larger than max_fun_evals and t the number of
\* distinct function IDs among the records; s <= t.
C7_Label ==
    rld.done =>
        /\ rld.outLabel = rld.label \o ": " \o ToString(Cardinality(RldFuncsUnderCap))
                                    \o "/" \o ToString(Cardinality(RldFuncs))
        /\ Cardinality(RldFuncsUnderCap) <= Cardinality(RldFuncs)

\* C7 witness: two functions, one solved only above a finite cap, the other under it
C7_Witness ==
    /\ rld.done /\ rld.max_fun_evals = Num(1)
    /\ Cardinality(RldFuncs) = 2 /\ Cardinality(RldFuncsUnderCap) = 1
    /\ Len(rld.x) = 2
    /\ rld.outLabel = rld.label \o ": 1/2"

-----------------------------------------------------------------------------
(* Claims about plotFVDistr *)

SetMax(S) == CHOOSE m \in S : \A e \in S : e <= m
RatMin(S) == CHOOSE m \in S : \A e \in S : RLe(m, e)

\* the rows of record k whose evaluation count does not exceed budget * dim
FvdRowsWithinBudget(k) ==
    {r \in 1..Len(fvd.dsList[k].funvals) :
        RLe(Num(fvd.dsList[k].funvals[r].evals), RMul(fvd.maxEvalsF, Num(fvd.dsList[k].dim)))}

\* C3: for every record and budget, plotFVDistr uses the last row of funvals
\* (rows in ascending evaluation count) whose evaluation count does not exceed
\* budget * dim; it never uses a row above budget * dim when a row at or under
\* the budget exists.
C3_LastRowWithinBudget ==
    fvd.done =>
        \A k \in 1..Len(fvd.dsList) :
            FvdRowsWithinBudget(k) # {} => fvd.j[k] = SetMax(FvdRowsWithinBudget(k))

\* the gaps of the row used for record k, over the record's target
FvdNormalized(k) ==
    LET gaps == fvd.dsList[k].funvals[fvd.j[k]].gaps
    IN  [i \in 1..Len(gaps) |-> RDiv(gaps[i], fvd.target.of[fvd.dsList[k].funcId])]

\* C4: for every record and positive target, each non-positive normalised gap of
\* the selected row is replaced by the minimum strictly positive value among the
\* row's positive gaps together with the target itself; positive gaps are left
\* unchanged (gaps [-2, 0, 3, 5] with target 1 become [1, 1, 3, 5]).
C4_ClampToSmallestPositive ==
    fvd.done =>
        \A k \in 1..Len(fvd.dsList) :
            LET norm == FvdNormalized(k)
                least == RatMin({norm[i] : i \in {i \in 1..Len(norm) : RLt(Num(0), norm[i])}}
                                    \cup {fvd.target.of[fvd.dsList[k].funcId]})
            IN  /\ Len(fvd.tmp[k]) = Len(norm)
                /\ \A i \in 1..Len(norm) :
                      fvd.tmp[k][i] = IF RLt(Num(0), norm[i]) THEN norm[i] ELSE least

-----------------------------------------------------------------------------
(* Claims about main, comp and beautifyFVD *)

\* the dimensions processed with isStoringXMax = True
StoringFigs == {i \in 1..Len(saved) : saved[i].isStoringXMax}
\* the first dimension processed by the invocation that processed dimension i
FirstOfCall(i) == SetMax({k \in 1..i : saved[k].first})

\* C8 as stated: in any single invocation of main or comp with isStoringXMax =
\* True, every dimension processed uses the same run-length ceiling, and that
\* ceiling is the maxEvalsFactor of the first dimension processed in that invocation.
\* Stated for the histories in which every call so far had isStoringXMax = True,
\* so that no call with isStoringXMax = False has touched the stored ceiling.
C8_CeilingOfFirstDimension ==
    (runlen_xlimits_max = None /\ StoringFigs = 1..Len(saved)) =>
        \A i \in StoringFigs :
            /\ saved[i].evalfmax = saved[FirstOfCall(i)].evalfmax
            /\ saved[i].evalfmax = saved[FirstOfCall(i)].maxEvalsFactor

\* C8 amended: with the module globals unset at import, in any single invocation
\* of main or comp with isStoringXMax = True every dimension processed uses the
\* same run-length ceiling.  With runlen_xlimits_max unset that ceiling is the
\* maxEvalsFactor of the first dimension processed in that invocation only when
\* no earlier call of main or comp has processed a dimension; otherwise it is the
\* ceiling of the dimension processed last before the invocation.  With
\* runlen_xlimits_max set it is runlen_xlimits_max.
C8_CeilingFrozenSinceStored ==
    \A i \in StoringFigs :
        LET k == FirstOfCall(i)
        IN  /\ saved[i].evalfmax = saved[k].evalfmax
            /\ runlen_xlimits_max # None => saved[i].evalfmax = runlen_xlimits_max
            /\ (runlen_xlimits_max = None /\ k = 1) =>
                  saved[i].evalfmax = saved[k].maxEvalsFactor
            /\ (runlen_xlimits_max = None /\ k > 1) =>
                  saved[i].evalfmax = saved[k - 1].evalfmax

\* C8 witness: a second invocation with isStoringXMax = True has processed two
\* dimensions whose own maxima differ from each other and from the ceiling used
C8_Witness ==
    /\ runlen_xlimits_max = None /\ Len(saved) = 3
    /\ saved[2].isStoringXMax /\ saved[2].first /\ ~saved[3].first
    /\ saved[2].maxEvalsFactor # saved[3].maxEvalsFactor
    /\ saved[2].maxEvalsFactor # saved[2].evalfmax
    /\ saved[3].maxEvalsFactor # saved[3].evalfmax

\* C9: with the module globals unset at import and runlen_xlimits_max unset,
\* every call made with isStoringXMax = True uses as its rightmost x-limits the
\* values set by the first call made with isStoringXMax = True (its first
\* dimension's maxEvalsFactor and axis limit); calls made with isStoringXMax =
\* False in between or before do not change which values the True calls use.
C9_FirstStoringCallDecides ==
    (runlen_xlimits_max = None /\ StoringFigs # {}) =>
        LET k == CHOOSE m \in StoringFigs : \A i \in StoringFigs : m <= i
            mains == {i \in StoringFigs : saved[i].fn = "main"}
        IN  /\ \A i \in StoringFigs : saved[i].evalfmax = saved[k].maxEvalsFactor
            /\ \A i \in mains :
                  saved[i].fmax = saved[CHOOSE m \in mains : \A n \in mains : m <= n].xlim

\* C10: in any call of main with isStoringXMax = False and runlen_xlimits_max
\* unset, whatever calls preceded it, the run-length ceiling of each dimension is
\* that dimension's own maxEvalsFactor and fmax is the right axis limit read for
\* that figure.
C10_ResetWhenNotStoring ==
    runlen_xlimits_max = None =>
        \A i \in 1..Len(saved) :
            (saved[i].fn = "main" /\ ~saved[i].isStoringXMax) =>
                /\ saved[i].evalfmax = saved[i].maxEvalsFactor
                /\ saved[i].fmax = saved[i].xlim

\* C10 witness: after a main call with isStoringXMax = True, a main call with
\* isStoringXMax = False has processed a dimension whose maximum and axis limit
\* differ from the stored ones
C10_Witness ==
    /\ runlen_xlimits_max = None /\ Len(saved) >= 2
    /\ saved[1].fn = "main" /\ saved[1].isStoringXMax
    /\ saved[2].fn = "main" /\ ~saved[2].isStoringXMax /\ saved[2].first
    /\ saved[2].maxEvalsFactor # saved[1].evalfmax
    /\ saved[2].xlim # saved[1].fmax
    /\ evalfmax # None /\ fmax # None

-----------------------------------------------------------------------------
(* Further claims about plotECDF *)

\* C11: plotECDF produces an empty curve (no points) whenever the sample
\* sequence is empty or n = 0, for any n; the call returns a curve in every such
\* case.
C11_EmptyCurve ==
    (ecdf.done /\ (EcdfNx = 0 \/ EcdfN = 0)) =>
        /\ ecdf.xdata = <<>>
        /\ ecdf.ydata = <<>>

\* C11 witness: a non-empty sample has been plotted with n = 0
C11_Witness ==
    /\ ecdf.done /\ EcdfNx = 2 /\ ecdf.n = <<0>>
    /\ ecdf.xdata = <<>>

\* the sequences that hold the same samples as x, in any order
PermutationsOf(x) == {p \in SeqsUpTo(SampleValues, Len(x)) : IsPermutation(p, x)}

\* C14: for every sample sequence x, every permutation p of x and every n,
\* plotECDF(p, n) yields exactly the curve of plotECDF(x, n), and the call leaves
\* the caller's sequence in its order.
C14_OrderIndependent ==
    [][(~ecdf.done /\ ecdf'.done) =>
           /\ ecdf'.x = ecdf.x
           /\ \A p \in PermutationsOf(ecdf.x) :
                 plotECDF(p, ecdf.n) = [xdata |-> ecdf'.xdata, ydata |-> ecdf'.ydata]]_vars

\* C14 witness: a sample of three values out of order, not all equal, has been plotted
C14_Witness ==
    /\ ecdf.done /\ EcdfNx = 3 /\ EcdfN > 0
    /\ RLt(ecdf.x[3], ecdf.x[1])
    /\ Cardinality(PermutationsOf(ecdf.x)) > 1
    /\ ecdf.xdata # Append(ecdf.x, ecdf.x[3])

-----------------------------------------------------------------------------
(* Further claims about plotRLDistr *)

\* the finite entries of the input whose value over dim is larger than the cap
RldCellsAboveCap ==
    {c \in RldFiniteCells :
        RldEntry(c[1], c[2])[1] * rld.max_fun_evals[2]
            > rld.max_fun_evals[1] * RldEntry(c[1], c[2])[2] * rld.dsList[c[1]].dim}

\* C15: the cap max_fun_evals influences only the solved-function count of the
\* label: for the same records and target, the sample, the total count n and the
\* curve are the same under every value of the cap, and a successful run length
\* larger than the cap is still a point of the curve.
C15_CapOnlyInLabel ==
    rld.done =>
        /\ \A cap \in Caps :
              LET r == plotRLDistr(rld.dsList, rld.target, rld.label, cap)
              IN  /\ r.x = rld.x
                  /\ r.nn = rld.nn
                  /\ r.xdata = rld.xdata
                  /\ r.ydata = rld.ydata
        /\ \A c \in RldCellsAboveCap :
              \E i \in 1..Len(rld.xdata) :
                  rld.xdata[i] = Rat(RldEntry(c[1], c[2])[1],
                                     RldEntry(c[1], c[2])[2] * rld.dsList[c[1]].dim)

\* C15 witness: with the cap at 1, a call has plotted a run length above the cap
\* next to one within it
C15_Witness ==
    /\ rld.done /\ rld.max_fun_evals = Num(1)
    /\ RldCellsAboveCap # {}
    /\ RldFiniteCells \ RldCellsAboveCap # {}
    /\ Len(rld.x) = Cardinality(RldFiniteCells)
    /\ \E i \in 1..Len(rld.xdata) : RLt(rld.max_fun_evals, rld.xdata[i])

-----------------------------------------------------------------------------
(* Claims about beautifyECDF *)

AxesXMax == axes.xlim[2]
\* the positions of the curves drawn as steps with a line, and with markers only
LineCurves ==
    {i \in 1..Len(axes.plotted) :
        axes.plotted[i].drawstyle = "steps" /\ axes.plotted[i].linestyle \notin {"", "None"}}
MarkerCurves ==
    {i \in 1..Len(axes.plotted) :
        /\ axes.plotted[i].drawstyle = "steps" /\ axes.plotted[i].marker # ""
        /\ axes.plotted[i].linestyle \in {"", "None"}}
\* the curves with at least one point, all of them left of xmax
CurvesShortOfXMax ==
    {i \in 1..Len(axes.plotted) :
        /\ Len(axes.plotted[i].xdata) > 0
        /\ \A j \in 1..Len(axes.plotted[i].xdata) : RLt(axes.plotted[i].xdata[j], AxesXMax)}
LastOf(s) == s[Len(s)]
\* curve i after the call starts with the curve as plotted
KeepsPlottedPoints(i) ==
    /\ Len(axes.children[i].xdata) >= Len(axes.plotted[i].xdata)
    /\ Len(axes.children[i].ydata) = Len(axes.children[i].xdata)
    /\ SubSeq(axes.children[i].xdata, 1, Len(axes.plotted[i].xdata)) = axes.plotted[i].xdata
    /\ SubSeq(axes.children[i].ydata, 1, Len(axes.plotted[i].ydata)) = axes.plotted[i].ydata
\* the positions appended to curve i by the call
AppendedTo(i) == (Len(axes.plotted[i].xdata) + 1)..Len(axes.children[i].xdata)
\* the whole decades 10 ** k
Decades == {Num(1), Num(10), Num(100), Num(1000), Rat(1, 10), Rat(1, 100)}

\* C12 as stated: every markers-only step curve with at least one point and
\* maximum x below xmax is extended, with its final y, up to xmax itself; x and y
\* stay non-decreasing.
C12_MarkersReachXMax ==
    axes.done =>
        \A i \in MarkerCurves \cap CurvesShortOfXMax :
            /\ KeepsPlottedPoints(i)
            /\ \A j \in AppendedTo(i) :
                  axes.children[i].ydata[j] = LastOf(axes.plotted[i].ydata)
            /\ LastOf(axes.children[i].xdata) = AxesXMax
            /\ NonDecreasing(axes.children[i].xdata)
            /\ NonDecreasing(axes.children[i].ydata)

\* C12 amended: such a curve keeps its points and gets, in ascending order and
\* each with the final y, exactly the whole decades 10 ** k lying between its
\* last x and xmax, both ends included; x and y stay non-decreasing.
C12_MarkersGetDecades ==
    axes.done =>
        \A i \in MarkerCurves \cap CurvesShortOfXMax :
            /\ KeepsPlottedPoints(i)
            /\ \A j \in AppendedTo(i) :
                  /\ axes.children[i].ydata[j] = LastOf(axes.plotted[i].ydata)
                  /\ axes.children[i].xdata[j] \in Decades
                  /\ RLe(LastOf(axes.plotted[i].xdata), axes.children[i].xdata[j])
                  /\ RLe(axes.children[i].xdata[j], AxesXMax)
                  /\ j > Len(axes.plotted[i].xdata) + 1 =>
                        RLt(axes.children[i].xdata[j - 1], axes.children[i].xdata[j])
            /\ \A d \in Decades :
                  (RLe(LastOf(axes.plotted[i].xdata), d) /\ RLe(d, AxesXMax)) =>
                      \E j \in AppendedTo(i) : axes.children[i].xdata[j] = d
            /\ NonDecreasing(axes.children[i].xdata)
            /\ NonDecreasing(axes.children[i].ydata)

\* C12 witness: a markers-only curve ending at x = 2 with xmax = 50 has been
\* extended by the one decade 10 and ends short of xmax
C12_Witness ==
    /\ axes.done /\ AxesXMax = Num(50)
    /\ \E i \in MarkerCurves \cap CurvesShortOfXMax :
          /\ LastOf(axes.plotted[i].xdata) = Num(2)
          /\ axes.children[i].xdata = Append(axes.plotted[i].xdata, Num(10))
          /\ axes.children[i].ydata =
                 Append(axes.plotted[i].ydata, LastOf(axes.plotted[i].ydata))

\* C13: every step curve of either style whose maximum x is equal to or greater
\* than xmax, and every curve with zero points, has the same x and y data after
\* beautifyECDF as before.
C13_UnchangedAtOrBeyondXMax ==
    axes.done =>
        \A i \in 1..Len(axes.plotted) :
            (\/ Len(axes.plotted[i].xdata) = 0
             \/ /\ i \in LineCurves \cup MarkerCurves
                /\ i \notin CurvesShortOfXMax) =>
                /\ axes.children[i].xdata = axes.plotted[i].xdata
                /\ axes.children[i].ydata = axes.plotted[i].ydata

\* C13 witness: a curve drawn with a line and ending exactly at xmax has been
\* through the call
C13_Witness ==
    /\ axes.done
    /\ \E i \in LineCurves :
          /\ Len(axes.plotted[i].xdata) = MaxPoints
          /\ LastOf(axes.plotted[i].xdata) = AxesXMax
          /\ axes.children[i].xdata = axes.plotted[i].xdata

====
